---- MODULE Spec2Model ----
(***************************************************************************)
(* Model of ai-services/src/services/video_analyzer.py: VideoAnalyzer.     *)
(* One analyze() call is a sequence of steps (pc); the network, the        *)
(* inference service's answer and the random source are the environment.   *)
(* Scores are integers in hundredths of a point (72.34 is 7234), so that   *)
(* round(x, 1) is a real operation.                                        *)
(***************************************************************************)
EXTENDS Integers, Sequences, FiniteSets, TLC

(***************************************************************************)
(* Bounds of the model.                                                    *)
(***************************************************************************)
\* At most this many of the eight payload keys are present in a decoded payload.
MaxKeys == 1
\* Threads that use get_openai_client concurrently (specification SpecThreads).
NThreads == 2
\* Calls of get_openai_client each thread makes (analyze makes two: lines 49, 81).
MaxCalls == 2
\* _normalize_score alone is given every number from -NormSpan to 100 + NormSpan
\* (in hundredths).
NormSpan == 300

(***************************************************************************)
(* Optional values: Python's None against a number / a string.             *)
(***************************************************************************)
None == [t |-> "none", v |-> 0]
Num(x) == [t |-> "num", v |-> x]
Null == [t |-> "null", v |-> 0]
Missing == [t |-> "missing", v |-> 0]
NaN == [t |-> "nan", v |-> 0]
BadStr == [t |-> "str", v |-> 0]

NoStr == [some |-> FALSE, s |-> <<>>]
Str(s) == [some |-> TRUE, s |-> s]
\* if not thumbnail_url / openai and thumbnail_url: None and "" are falsy.
StrTruthy(o) == o.some /\ o.s # <<>>

\* The module global client = None; a constructed client is its instance number.
NoClient == 0

(***************************************************************************)
(* _normalize_score                                                        *)
(***************************************************************************)
Min(a, b) == IF a < b THEN a ELSE b
Max(a, b) == IF a > b THEN a ELSE b

\* round(x, 1) on hundredths: to the nearest tenth, a tie to the even tenth
\* (for a float the tie goes by its binary value; no input of the model is a tie).
Round1(h) ==
    LET q == h \div 10
        r == h % 10
    IN  IF r < 5 THEN q * 10
        ELSE IF r > 5 THEN (q + 1) * 10
        ELSE IF q % 2 = 0 THEN q * 10 ELSE (q + 1) * 10

\* max(0, min(100, score))
Clamp(x) == Max(0, Min(10000, x))

NormalizeNoClamp(score) ==
    CASE score.t = "null" -> None
      [] score.t = "num"  -> Num(Round1(score.v))
      [] score.t = "nan"  -> Num(10000)
      [] OTHER            -> Num(7000)

NormalizeFloor(score) ==
    CASE score.t = "null" -> None
      [] score.t = "num"  -> Num((Clamp(score.v) \div 10) * 10)
      [] score.t = "nan"  -> Num(10000)
      [] OTHER            -> Num(7000)

\* None -> None; float(score) clamped and rounded; min(100, nan) is 100;
\* a value float() rejects -> 70.0.
normalize_score(score) ==
    CASE score.t = "null" -> None
      [] score.t = "num"  -> Num(Round1(Clamp(score.v)))
      [] score.t = "nan"  -> Num(10000)
      [] OTHER            -> Num(7000)

\* Python truth value of a decoded JSON value: None, 0 and a missing key's None are falsy.
Truthy(x) ==
    CASE x.t = "null"    -> FALSE
      [] x.t = "missing" -> FALSE
      [] x.t = "none"    -> FALSE
      [] x.t = "num"     -> x.v # 0
      [] OTHER           -> TRUE

\* dict.get(key, default): the default only when the key is missing.
Get(d, key, default) == IF d[key].t = "missing" THEN default ELSE d[key]
\* dict.get(key): None when the key is missing.
Get1(d, key) == IF d[key].t = "missing" THEN Null ELSE d[key]

(***************************************************************************)
(* The decoded JSON payload and the record built from it.                  *)
(***************************************************************************)
NumKeys == {"performanceScore", "expressionScore", "qualityScore", "timingScore",
            "vocalScore", "movementScore"}
Keys == NumKeys \cup {"categoryTags", "feedback"}

\* Values of categoryTags and feedback: v is always a sequence of strings.
TagMissing == [t |-> "missing", v |-> <<>>]
TagNull == [t |-> "null", v |-> <<>>]
TagList(s) == [t |-> "list", v |-> s]
TagStr(s) == [t |-> "str", v |-> s]

\* Values a present numeric key may carry: null, numbers below, inside and above
\* the range, NaN (json.loads accepts it) and a non-numeric string.
PresentNumVals == {Null, Num(-500), Num(0), Num(7234), Num(15000), NaN, BadStr}
PresentTags == {TagNull, TagList(<<>>), TagList(<<"singer">>), TagList(<<"singer", "dancer">>)}
PresentFeedback == {TagNull, TagStr(<<"Nice work">>)}

EmptyPayload ==
    [num |-> [k \in NumKeys |-> Missing], tags |-> TagMissing, feedback |-> TagMissing]

PayloadsWith(S) ==
    { [num |-> [k \in NumKeys |-> IF k \in S THEN f[k] ELSE Missing],
       tags |-> tg, feedback |-> fb] :
        f \in [S \cap NumKeys -> PresentNumVals],
        tg \in (IF "categoryTags" \in S THEN PresentTags ELSE {TagMissing}),
        fb \in (IF "feedback" \in S THEN PresentFeedback ELSE {TagMissing}) }

Payloads == UNION { PayloadsWith(S) : S \in {T \in SUBSET Keys : Cardinality(T) <= MaxKeys} }

DefaultPerformance == 7000
DefaultExpression == 7000
DefaultQuality == 7500
DefaultTiming == 7000

\* normalize(x) if x else None, for the optional fields.
OptionalScore(x) == IF Truthy(x) THEN normalize_score(x) ELSE None

\* scores.get("categoryTags", ["entertainer"]) and scores.get("feedback", "").
TagsOrDefault(d) == IF d.tags.t = "missing" THEN TagList(<<"entertainer">>) ELSE d.tags
FeedbackOrDefault(d) == IF d.feedback.t = "missing" THEN TagStr(<<>>) ELSE d.feedback

\* The result dict of _analyze_with_openai.
BuildResult(d) ==
    [performanceScore |-> normalize_score(Get(d.num, "performanceScore", Num(DefaultPerformance))),
     expressionScore  |-> normalize_score(Get(d.num, "expressionScore", Num(DefaultExpression))),
     qualityScore     |-> normalize_score(Get(d.num, "qualityScore", Num(DefaultQuality))),
     timingScore      |-> normalize_score(Get(d.num, "timingScore", Num(DefaultTiming))),
     vocalScore       |-> OptionalScore(Get1(d.num, "vocalScore")),
     movementScore    |-> OptionalScore(Get1(d.num, "movementScore")),
     categoryTags     |-> TagsOrDefault(d),
     feedback         |-> FeedbackOrDefault(d)]

NoResult ==
    [performanceScore |-> None, expressionScore |-> None, qualityScore |-> None,
     timingScore |-> None, vocalScore |-> None, movementScore |-> None,
     categoryTags |-> TagMissing, feedback |-> TagMissing]

(***************************************************************************)
(* Extracting and decoding the JSON of the response text.  A text is a     *)
(* sequence of tokens: "w" prose, "fence_json" a fence opening tagged json, *)
(* "fence" a bare fence, "{" and "}" braces, "B" the key/value text of the *)
(* payload, "[1]" a JSON list; "Bpre", "fence", "Bpost" inside an object is *)
(* key/value text with the fence characters inside a string value.         *)
(***************************************************************************)
Texts ==
    { <<"{", "B", "}">>,
      <<"fence_json", "{", "B", "}", "fence">>,
      <<"w", "{", "B", "}", "w">>,
      <<"{", "}">>,
      <<"w">>,
      <<"[1]">>,
      <<>> }

HasBody(c) == \E i \in 1..Len(c) : c[i] \in {"B", "Bpre"}

\* A tagged fence opening also begins with the three fence characters.
IsFence(tok) == tok \in {"fence", "fence_json"}

\* re.search on the json-tagged fence, lazy up to the next fence (line 147).
FencedMatch(c) ==
    \E i \in 1..Len(c) : c[i] = "fence_json" /\ \E j \in (i + 1)..Len(c) : IsFence(c[j])
FencedGroup(c) ==
    LET i == CHOOSE i \in 1..Len(c) :
                 /\ c[i] = "fence_json"
                 /\ \E j \in (i + 1)..Len(c) : IsFence(c[j])
                 /\ \A k \in 1..(i - 1) :
                        ~(c[k] = "fence_json" /\ \E j \in (k + 1)..Len(c) : IsFence(c[j]))
        j == CHOOSE j \in (i + 1)..Len(c) :
                 IsFence(c[j]) /\ \A k \in (i + 1)..(j - 1) : ~IsFence(c[k])
    IN  SubSeq(c, i + 1, j - 1)

\* re.search(r'\{.*\}', content, re.DOTALL): first "{" to the last "}" after it.
BraceMatch(c) ==
    \E i \in 1..Len(c) : c[i] = "{" /\ \E j \in (i + 1)..Len(c) : c[j] = "}"
BraceGroup(c) ==
    LET i == CHOOSE i \in 1..Len(c) : c[i] = "{" /\ \A k \in 1..(i - 1) : c[k] # "{"
        j == CHOOSE j \in 1..Len(c) : c[j] = "}" /\ \A k \in (j + 1)..Len(c) : c[k] # "}"
    IN  SubSeq(c, i, j)

\* Lines 147-154.
ExtractJson(c) ==
    IF FencedMatch(c) THEN FencedGroup(c)
    ELSE IF BraceMatch(c) THEN BraceGroup(c)
    ELSE c

\* json.loads: "dict" with its payload, "other" for JSON that is no object,
\* "error" for JSONDecodeError.
JsonLoads(c, b) ==
    IF c = <<"{", "B", "}">> THEN [kind |-> "dict", d |-> b]
    ELSE IF c = <<"{", "Bpre", "fence", "Bpost", "}">> THEN [kind |-> "dict", d |-> b]
    ELSE IF c = <<"{", "}">> THEN [kind |-> "dict", d |-> EmptyPayload]
    ELSE IF c = <<"[1]">> THEN [kind |-> "other", d |-> EmptyPayload]
    ELSE [kind |-> "error", d |-> EmptyPayload]

(***************************************************************************)
(* _fallback_analysis                                                      *)
(***************************************************************************)
BaseScore == 7200
LongDuration == 120
ShortDuration == 15
LongBonus == 300
ShortPenalty == 200

\* The four random.uniform draws, in hundredths.
Noises ==
    [base : {-500, 0, 986}, expression : {-496, 500}, quality : {0, 764},
     timing : {-300, 458}]
ZeroNoise == [base |-> 0, expression |-> 0, quality |-> 0, timing |-> 0]

\* if duration: then > 120 / elif < 15.
DurationAdjustment(duration) ==
    IF Truthy(duration)
    THEN IF duration.v > LongDuration THEN LongBonus
         ELSE IF duration.v < ShortDuration THEN 0 - ShortPenalty ELSE 0
    ELSE 0

FallbackScores(duration, n) ==
    LET base_score == BaseScore + n.base + DurationAdjustment(duration)
    IN  [performanceScore |-> Num(Clamp(Round1(base_score))),
         expressionScore  |-> Num(Clamp(Round1(base_score + n.expression))),
         qualityScore     |-> Num(Clamp(Round1(base_score + n.quality))),
         timingScore      |-> Num(Clamp(Round1(base_score + n.timing))),
         vocalScore       |-> None,
         movementScore    |-> None,
         categoryTags     |-> TagList(<<"entertainer">>),
         feedback         |-> TagStr(<<"AI analysis unavailable. Score based on video metrics.">>)]

(***************************************************************************)
(* _get_thumbnail_url                                                      *)
(***************************************************************************)
RECURSIVE ReplaceStream(_)
\* str.replace('/stream.m3u8', '/thumbnail.jpg')
ReplaceStream(s) ==
    IF s = <<>> THEN <<>>
    ELSE IF Len(s) >= 2 /\ s[1] = "/stream" /\ s[2] = ".m3u8"
         THEN <<"/thumbnail.jpg">> \o ReplaceStream(SubSeq(s, 3, Len(s)))
         ELSE <<s[1]>> \o ReplaceStream(Tail(s))
\* str.replace('.m3u8', '_thumb.jpg')
ReplaceExt(s) == [i \in 1..Len(s) |-> IF s[i] = ".m3u8" THEN "_thumb.jpg" ELSE s[i]]

HasM3u8(s) == \E i \in 1..Len(s) : s[i] = ".m3u8"

get_thumbnail_url(video_url) ==
    IF HasM3u8(video_url) THEN Str(ReplaceExt(ReplaceStream(video_url))) ELSE NoStr

\* Lines 52-54: the caller's thumbnail, or the derived one.
ResolveThumbnail(req) ==
    IF ~StrTruthy(req.thumbnail_url) THEN get_thumbnail_url(req.video_url)
    ELSE req.thumbnail_url

(***************************************************************************)
(* State.                                                                  *)
(***************************************************************************)
VARIABLES
    request,        \* the arguments of analyze()
    apiKey,         \* whether OPENAI_API_KEY is set in the environment
    client,         \* the module global client
    nConstructed,   \* how many AsyncOpenAI instances were constructed
    pc,             \* where the analyze() call is
    openai,         \* analyze's local openai
    thumbnail,      \* analyze's local thumbnail_url after lines 52-54
    image_data,     \* the value of _fetch_image_as_base64
    sent,           \* the image url given to chat.completions.create
    content,        \* response.choices[0].message.content
    body,           \* the payload the text's "B" stands for
    exc,            \* the exception in flight
    failure,        \* why the vision path failed, once it has
    fbArgs,         \* the arguments of the _fallback_analysis call
    fbCaller,       \* who called _fallback_analysis
    noise,          \* the random draws of _fallback_analysis
    scores,         \* what _analyze_with_openai returned to analyze
    result,         \* what analyze returned
    log,            \* the logger's entries
    fetchCalls,     \* media fetches made
    inferenceCalls, \* chat.completions.create calls made
    tpc,            \* per thread: where it is in get_openai_client
    tkey,           \* per thread: its local api_key
    tnew,           \* per thread: the instance it constructed
    tret,           \* per thread: what get_openai_client returned
    tcalls,         \* per thread: the calls of get_openai_client it has begun
    nIn,            \* _normalize_score alone: its argument
    nOut,           \* its value
    nOut2,          \* its value on that value
    nPc,            \* how often it was applied
    pText,          \* response parsing alone: the text, as lead, object, trail
    pBody,          \* the payload the object's key/value text stands for
    pOut,           \* what lines 146-170 made of the text
    pPc,            \* whether they ran
    sWhich,         \* signal analyzers alone: the analyzer called
    sFrames,        \* video_frames
    sAudio,         \* what librosa finds in the audio file
    sLibs,          \* whether the signal libraries import
    sOut,           \* the dict returned
    sPc             \* whether the analyzer ran

callVars ==
    <<request, apiKey, pc, openai, thumbnail, image_data, sent, content, body, exc,
      failure, fbArgs, fbCaller, noise, scores, result, log, fetchCalls, inferenceCalls>>
threadVars == <<tpc, tkey, tnew, tret, tcalls>>
pureVars ==
    <<nIn, nOut, nOut2, nPc, pText, pBody, pOut, pPc, sWhich, sFrames, sAudio, sLibs,
      sOut, sPc>>
vars == <<callVars, client, nConstructed, threadVars, pureVars>>

Threads == 1..NThreads

Urls ==
    { <<"v.mp4">>,
      <<"v", "/stream", ".m3u8">>,
      <<"v", "/hls", ".m3u8", "?sig">>,
      <<>> }
ThumbArgs == {NoStr, Str(<<>>), Str(<<"t.jpg">>)}
Durations == {None, Num(0), Num(14), Num(15), Num(120), Num(121)}
Categories == {NoStr, Str(<<"singer">>)}

Requests ==
    [video_url : Urls, duration : Durations, category_id : Categories,
     thumbnail_url : ThumbArgs]

LogEntry(m, sc) == [msg |-> m, score |-> sc]

\* Whether an except clause catches the exception: all the exceptions of the
\* model derive from Exception.
Catches(clause, e) == e # "none" /\ (clause = "Exception" \/ clause = e)

ThreadsIdle ==
    /\ tpc = [t \in Threads |-> "call"]
    /\ tkey = [t \in Threads |-> FALSE]
    /\ tnew = [t \in Threads |-> NoClient]
    /\ tret = [t \in Threads |-> NoClient]
    /\ tcalls = [t \in Threads |-> 1]

NoParse == [ok |-> FALSE, error |-> "none", rec |-> NoResult]
NoAudio == [loads |-> FALSE, pitch_std |-> None, beat_std |-> None, centroid |-> 0, rms_std |-> 0]
NoOutput == [kind |-> "none"]

NormalizeIdle == nIn = Null /\ nOut = None /\ nOut2 = None /\ nPc = "idle"
ParseIdle ==
    /\ pText = [lead |-> <<>>, obj |-> <<>>, trail |-> <<>>]
    /\ pBody = EmptyPayload
    /\ pOut = NoParse
    /\ pPc = "idle"
SignalsIdle ==
    /\ sWhich = "none"
    /\ sFrames = <<>>
    /\ sAudio = NoAudio
    /\ sLibs = FALSE
    /\ sOut = NoOutput
    /\ sPc = "idle"

Init ==
    /\ request \in Requests
    /\ apiKey \in BOOLEAN
    /\ client = NoClient
    /\ nConstructed = 0
    /\ pc = "analyze"
    /\ openai = NoClient
    /\ thumbnail = NoStr
    /\ image_data = NoStr
    /\ sent = NoStr
    /\ content = <<>>
    /\ body = EmptyPayload
    /\ exc = "none"
    /\ failure = "none"
    /\ fbArgs = [video_url |-> <<>>, duration |-> None]
    /\ fbCaller = "none"
    /\ noise = ZeroNoise
    /\ scores = NoResult
    /\ result = NoResult
    /\ log = <<>>
    /\ fetchCalls = 0
    /\ inferenceCalls = 0
    /\ ThreadsIdle
    /\ NormalizeIdle
    /\ ParseIdle
    /\ SignalsIdle

(***************************************************************************)
(* analyze, lines 48-64: get the client, resolve the thumbnail, choose.    *)
(* get_openai_client has no await, so a coroutine runs it in one step.     *)
(* The AsyncOpenAI constructor may raise (ctor = "raises").                *)
(***************************************************************************)
UseVisionClientOnly(o, th) == o # NoClient
\* if openai and thumbnail_url
UseVision(o, th) == o # NoClient /\ StrTruthy(th)

AnalyzeEntry ==
    /\ pc = "analyze"
    /\ \E ctor \in {"ok", "raises"} :
        LET construct == client = NoClient /\ apiKey
            raised == construct /\ ctor = "raises"
            cl == IF construct /\ ~raised THEN nConstructed + 1 ELSE client
            th == ResolveThumbnail(request)
        IN  /\ client' = cl
            /\ nConstructed' = IF construct /\ ~raised THEN nConstructed + 1 ELSE nConstructed
            /\ IF raised
               THEN /\ exc' = "OpenAIError"
                    /\ pc' = "outer_handler"
                    /\ UNCHANGED <<openai, thumbnail, log, fbArgs, fbCaller>>
               ELSE /\ openai' = cl
                    /\ thumbnail' = th
                    /\ exc' = exc
                    /\ IF UseVision(cl, th)
                       THEN /\ pc' = "fetch"
                            /\ UNCHANGED <<log, fbArgs, fbCaller>>
                       ELSE /\ pc' = "fallback"
                            /\ log' = Append(log, LogEntry("OpenAI not available, using fallback analysis", None))
                            /\ fbArgs' = [video_url |-> request.video_url,
                                          duration |-> request.duration]
                            /\ fbCaller' = "direct"
    /\ UNCHANGED <<request, apiKey, image_data, sent, content, body, failure, noise,
                   scores, result, fetchCalls, inferenceCalls, threadVars, pureVars>>

(***************************************************************************)
(* _analyze_with_openai, lines 85-103, with _fetch_image_as_base64: the    *)
(* fetch never raises; only a 200 gives data.                              *)
(***************************************************************************)
FetchImage ==
    /\ pc = "fetch"
    /\ \E outcome \in {"200", "404", "exception", "timeout"} :
        /\ image_data' = IF outcome = "200" THEN Str(<<"b64">>) ELSE NoStr
        /\ log' = IF outcome \in {"exception", "timeout"}
                  THEN Append(log, LogEntry("Could not fetch image", None))
                  ELSE log
    /\ fetchCalls' = fetchCalls + 1
    /\ pc' = "infer"
    /\ UNCHANGED <<request, apiKey, client, nConstructed, openai, thumbnail, sent, content,
                   body, exc, failure, fbArgs, fbCaller, noise, scores, result,
                   inferenceCalls, threadVars, pureVars>>

ImageContentAlwaysInline == Str(<<"data:image/jpeg;base64,">> \o image_data.s)
\* Lines 87-103: the inlined data url, or the url itself.
ImageContent == IF StrTruthy(image_data) THEN Str(<<"data:image/jpeg;base64,">> \o image_data.s)
                ELSE thumbnail

(***************************************************************************)
(* openai.chat.completions.create, lines 107-144.                          *)
(***************************************************************************)
InferenceRespond ==
    /\ pc = "infer"
    /\ inferenceCalls' = inferenceCalls + 1
    /\ sent' = ImageContent
    /\ \E text \in Texts :
        /\ content' = text
        /\ body' \in IF HasBody(text) THEN Payloads ELSE {EmptyPayload}
    /\ pc' = "parse"
    /\ UNCHANGED <<request, apiKey, client, nConstructed, openai, thumbnail, image_data,
                   exc, failure, fbArgs, fbCaller, noise, scores, result, log, fetchCalls,
                   threadVars, pureVars>>

InferenceFail ==
    /\ pc = "infer"
    /\ inferenceCalls' = inferenceCalls + 1
    /\ sent' = ImageContent
    /\ exc' \in {"APIError", "APITimeoutError"}
    /\ failure' = "upstream"
    /\ pc' = "inner_handler"
    /\ UNCHANGED <<request, apiKey, client, nConstructed, openai, thumbnail, image_data,
                   content, body, fbArgs, fbCaller, noise, scores, result, log, fetchCalls,
                   threadVars, pureVars>>

(***************************************************************************)
(* Lines 146-170: extract, json.loads, build the result.  scores.get on    *)
(* JSON that is no object raises AttributeError.                           *)
(***************************************************************************)
ParseResponse ==
    /\ pc = "parse"
    /\ LET loaded == JsonLoads(ExtractJson(content), body)
       IN  CASE loaded.kind = "dict" ->
                    /\ scores' = BuildResult(loaded.d)
                    /\ pc' = "vision_return"
                    /\ UNCHANGED <<exc, failure>>
             [] loaded.kind = "other" ->
                    /\ exc' = "AttributeError"
                    /\ failure' = "malformed"
                    /\ pc' = "inner_handler"
                    /\ UNCHANGED scores
             [] OTHER ->
                    /\ exc' = "JSONDecodeError"
                    /\ failure' = "malformed"
                    /\ pc' = "inner_handler"
                    /\ UNCHANGED scores
    /\ UNCHANGED <<request, apiKey, client, nConstructed, openai, thumbnail, image_data,
                   sent, content, body, fbArgs, fbCaller, noise, result, log, fetchCalls,
                   inferenceCalls, threadVars, pureVars>>

(***************************************************************************)
(* Lines 172-177: both handlers log and call _fallback_analysis("", None). *)
(***************************************************************************)
InnerHandler ==
    /\ pc = "inner_handler"
    /\ IF Catches("JSONDecodeError", exc)
       THEN /\ log' = Append(log, LogEntry("Failed to parse OpenAI response", None))
            /\ fbArgs' = [video_url |-> <<>>, duration |-> None]
            /\ fbCaller' = "inner"
            /\ exc' = "none"
            /\ pc' = "fallback"
       ELSE IF Catches("Exception", exc)
       THEN /\ log' = Append(log, LogEntry("OpenAI analysis failed", None))
            /\ fbArgs' = [video_url |-> <<>>, duration |-> None]
            /\ fbCaller' = "inner"
            /\ exc' = "none"
            /\ pc' = "fallback"
       ELSE /\ pc' = "outer_handler"
            /\ UNCHANGED <<log, fbArgs, fbCaller, exc>>
    /\ UNCHANGED <<request, apiKey, client, nConstructed, openai, thumbnail, image_data,
                   sent, content, body, failure, noise, scores, result, fetchCalls,
                   inferenceCalls, threadVars, pureVars>>

(***************************************************************************)
(* Lines 66-69: analyze's own handler.                                     *)
(***************************************************************************)
OuterHandler ==
    /\ pc = "outer_handler"
    /\ IF Catches("Exception", exc)
       THEN /\ log' = Append(log, LogEntry("Analysis error", None))
            /\ fbArgs' = [video_url |-> request.video_url, duration |-> request.duration]
            /\ fbCaller' = "outer"
            /\ exc' = "none"
            /\ pc' = "fallback"
       ELSE /\ pc' = "raised"
            /\ UNCHANGED <<log, fbArgs, fbCaller, exc>>
    /\ UNCHANGED <<request, apiKey, client, nConstructed, openai, thumbnail, image_data,
                   sent, content, body, failure, noise, scores, result, fetchCalls,
                   inferenceCalls, threadVars, pureVars>>

(***************************************************************************)
(* _fallback_analysis, lines 200-233, returning to its caller: to line 58  *)
(* (as the value of _analyze_with_openai) or out of analyze (64, 69).      *)
(***************************************************************************)
FallbackAnalysis ==
    /\ pc = "fallback"
    /\ \E n \in Noises :
        /\ noise' = n
        /\ IF fbCaller = "inner"
           THEN /\ scores' = FallbackScores(fbArgs.duration, n)
                /\ pc' = "vision_return"
                /\ UNCHANGED result
           ELSE /\ result' = FallbackScores(fbArgs.duration, n)
                /\ pc' = "done"
                /\ UNCHANGED scores
    /\ UNCHANGED <<request, apiKey, client, nConstructed, openai, thumbnail, image_data,
                   sent, content, body, exc, failure, fbArgs, fbCaller, log, fetchCalls,
                   inferenceCalls, threadVars, pureVars>>

(***************************************************************************)
(* Lines 59-60: log the completed OpenAI analysis and return the scores.   *)
(***************************************************************************)
VisionReturn ==
    /\ pc = "vision_return"
    /\ log' = Append(log, LogEntry("OpenAI analysis complete", scores.performanceScore))
    /\ result' = scores
    /\ pc' = "done"
    /\ UNCHANGED <<request, apiKey, client, nConstructed, openai, thumbnail, image_data,
                   sent, content, body, exc, failure, fbArgs, fbCaller, noise, scores,
                   fetchCalls, inferenceCalls, threadVars, pureVars>>

Next ==
    \/ AnalyzeEntry
    \/ FetchImage
    \/ InferenceRespond
    \/ InferenceFail
    \/ ParseResponse
    \/ InnerHandler
    \/ OuterHandler
    \/ FallbackAnalysis
    \/ VisionReturn

Spec == Init /\ [][Next]_vars

(***************************************************************************)
(* get_openai_client (lines 15-21) called from several threads: between    *)
(* any two of its reads and writes of the global another thread may run.   *)
(***************************************************************************)
CallIdle ==
    /\ request = [video_url |-> <<>>, duration |-> None, category_id |-> NoStr,
                  thumbnail_url |-> NoStr]
    /\ pc = "idle"
    /\ openai = NoClient
    /\ thumbnail = NoStr
    /\ image_data = NoStr
    /\ sent = NoStr
    /\ content = <<>>
    /\ body = EmptyPayload
    /\ exc = "none"
    /\ failure = "none"
    /\ fbArgs = [video_url |-> <<>>, duration |-> None]
    /\ fbCaller = "none"
    /\ noise = ZeroNoise
    /\ scores = NoResult
    /\ result = NoResult
    /\ log = <<>>
    /\ fetchCalls = 0
    /\ inferenceCalls = 0

InitThreads ==
    /\ CallIdle
    /\ apiKey \in BOOLEAN
    /\ client = NoClient
    /\ nConstructed = 0
    /\ ThreadsIdle
    /\ NormalizeIdle
    /\ ParseIdle
    /\ SignalsIdle

\* Line 17: if client is None
CheckNone(t) ==
    /\ tpc[t] = "call"
    /\ tpc' = [tpc EXCEPT ![t] = IF client = NoClient THEN "getenv" ELSE "return"]
    /\ UNCHANGED <<callVars, pureVars, client, nConstructed, tkey, tnew, tret, tcalls>>

\* Lines 18-19: api_key = os.getenv(...); if api_key
GetEnv(t) ==
    /\ tpc[t] = "getenv"
    /\ tkey' = [tkey EXCEPT ![t] = apiKey]
    /\ tpc' = [tpc EXCEPT ![t] = IF apiKey THEN "construct" ELSE "return"]
    /\ UNCHANGED <<callVars, pureVars, client, nConstructed, tnew, tret, tcalls>>

\* Line 20, right-hand side: AsyncOpenAI(api_key=api_key)
Construct(t) ==
    /\ tpc[t] = "construct"
    /\ nConstructed' = nConstructed + 1
    /\ tnew' = [tnew EXCEPT ![t] = nConstructed + 1]
    /\ tpc' = [tpc EXCEPT ![t] = "store"]
    /\ UNCHANGED <<callVars, pureVars, client, tkey, tret, tcalls>>

\* Line 20, the assignment to the global
Store(t) ==
    /\ tpc[t] = "store"
    /\ client' = tnew[t]
    /\ tpc' = [tpc EXCEPT ![t] = "return"]
    /\ UNCHANGED <<callVars, pureVars, nConstructed, tkey, tnew, tret, tcalls>>

\* Line 21: return client
Return(t) ==
    /\ tpc[t] = "return"
    /\ tret' = [tret EXCEPT ![t] = client]
    /\ tpc' = [tpc EXCEPT ![t] = "done"]
    /\ UNCHANGED <<callVars, pureVars, client, nConstructed, tkey, tnew, tcalls>>

\* The thread's next use (line 81 after line 49, or its next analyze call).
CallAgain(t) ==
    /\ tpc[t] = "done"
    /\ tcalls[t] < MaxCalls
    /\ tcalls' = [tcalls EXCEPT ![t] = tcalls[t] + 1]
    /\ tpc' = [tpc EXCEPT ![t] = "call"]
    /\ UNCHANGED <<callVars, pureVars, client, nConstructed, tkey, tnew, tret>>

NextThreads ==
    \E t \in Threads :
        \/ CheckNone(t)
        \/ GetEnv(t)
        \/ Construct(t)
        \/ Store(t)
        \/ Return(t)
        \/ CallAgain(t)

SpecThreads == InitThreads /\ [][NextThreads]_vars

(***************************************************************************)
(* _normalize_score alone (lines 190-198), applied to a value and then to  *)
(* its own result.  A value exactly between two tenths rounds by the       *)
(* float's binary value: either neighbour.                                 *)
(***************************************************************************)
NormInputs ==
    {Null, NaN, BadStr, Num(-500), Num(15000)}
        \cup {Num(x) : x \in (0 - NormSpan)..(10000 + NormSpan)}

NormalizeOutcomes(score) ==
    IF score.t = "num" /\ Clamp(score.v) % 10 = 5
    THEN {Num((Clamp(score.v) \div 10) * 10), Num((Clamp(score.v) \div 10 + 1) * 10)}
    ELSE {normalize_score(score)}

\* A returned None or float as the next call's argument.
AsArgument(x) == IF x = None THEN Null ELSE x

ProcessIdle ==
    /\ CallIdle
    /\ apiKey = FALSE
    /\ client = NoClient
    /\ nConstructed = 0
    /\ ThreadsIdle

InitNormalize ==
    /\ ProcessIdle
    /\ ParseIdle
    /\ SignalsIdle
    /\ nIn \in NormInputs
    /\ nOut = None
    /\ nOut2 = None
    /\ nPc = "idle"

NormalizeOnce ==
    /\ nPc = "idle"
    /\ nOut' \in NormalizeOutcomes(nIn)
    /\ nPc' = "once"
    /\ UNCHANGED <<callVars, client, nConstructed, threadVars, nIn, nOut2, pText, pBody,
                   pOut, pPc, sWhich, sFrames, sAudio, sLibs, sOut, sPc>>

NormalizeTwice ==
    /\ nPc = "once"
    /\ nOut2' \in NormalizeOutcomes(AsArgument(nOut))
    /\ nPc' = "twice"
    /\ UNCHANGED <<callVars, client, nConstructed, threadVars, nIn, nOut, pText, pBody,
                   pOut, pPc, sWhich, sFrames, sAudio, sLibs, sOut, sPc>>

NextNormalize == NormalizeOnce \/ NormalizeTwice

SpecNormalize == InitNormalize /\ [][NextNormalize]_vars

(***************************************************************************)
(* Lines 146-170 alone: from the response text to the result dict or the   *)
(* exception, on texts made of a lead, one JSON object and a trail.        *)
(***************************************************************************)
ObjectTexts ==
    { <<"{", "B", "}">>,
      <<"{", "}">>,
      <<"{", "Bpre", "fence", "Bpost", "}">> }
Leads == { <<>>, <<"w">>, <<"fence_json">>, <<"fence">> }
Trails ==
    { <<>>, <<"w">>, <<"fence">>, <<"w", "}">>, <<"w", "{", "}">>, <<"w", "{", "w", "}", "w">> }

FullText(t) == t.lead \o t.obj \o t.trail

ParseText(c, b) ==
    LET loaded == JsonLoads(ExtractJson(c), b)
    IN  CASE loaded.kind = "dict" ->
                 [ok |-> TRUE, error |-> "none", rec |-> BuildResult(loaded.d)]
          [] loaded.kind = "other" ->
                 [ok |-> FALSE, error |-> "AttributeError", rec |-> NoResult]
          [] OTHER ->
                 [ok |-> FALSE, error |-> "JSONDecodeError", rec |-> NoResult]

InitParse ==
    /\ ProcessIdle
    /\ NormalizeIdle
    /\ SignalsIdle
    /\ pText \in [lead : Leads, obj : ObjectTexts, trail : Trails]
    /\ pBody \in IF HasBody(pText.obj) THEN Payloads ELSE {EmptyPayload}
    /\ pOut = NoParse
    /\ pPc = "idle"

ParseStep ==
    /\ pPc = "idle"
    /\ pOut' = ParseText(FullText(pText), pBody)
    /\ pPc' = "done"
    /\ UNCHANGED <<callVars, client, nConstructed, threadVars, nIn, nOut, nOut2, nPc,
                   pText, pBody, sWhich, sFrames, sAudio, sLibs, sOut, sPc>>

NextParse == ParseStep

SpecParse == InitParse /\ [][NextParse]_vars

(***************************************************************************)
(* Lines 240-388 alone: analyze_audio, analyze_movement and                *)
(* analyze_expression.  A coordinate is in hundredths of the normalised    *)
(* frame; the arithmetic is in thousandths of a score point and the        *)
(* returned values are in hundredths, as everywhere else.                  *)
(***************************************************************************)
\* Frames drawn freely at the start of video_frames (the rest is a repetition
\* of one frame up to the cap, then at most one more frame).
MaxFrames == 3
\* video_frames[:30] and video_frames[:20]
PoseCap == 30
FaceCap == 20

Returned(b) == [kind |-> "returned", bundle |-> b]
Raised(e) == [kind |-> "exc", e |-> e]
FallsThrough == [kind |-> "fallthrough"]

\* round(num / den, 1) of a value in thousandths, to hundredths: to the nearest
\* tenth, a tie to the even tenth.
RoundRatio(num, den) ==
    LET q == num \div (100 * den)
        r == num - q * 100 * den
    IN  IF 2 * r < 100 * den THEN q * 10
        ELSE IF 2 * r > 100 * den THEN (q + 1) * 10
        ELSE IF q % 2 = 0 THEN q * 10 ELSE (q + 1) * 10

Abs(x) == IF x < 0 THEN 0 - x ELSE x

RECURSIVE SqrtBetween(_, _, _)
SqrtBetween(x, lo, hi) ==
    IF lo = hi THEN lo
    ELSE LET mid == (lo + hi + 1) \div 2
         IN  IF mid * mid <= x THEN SqrtBetween(x, mid, hi)
             ELSE SqrtBetween(x, lo, mid - 1)
\* The integer part of the square root.
Sqrt(x) == SqrtBetween(x, 0, 46340)

RECURSIVE Sum(_)
Sum(xs) == IF xs = <<>> THEN 0 ELSE Head(xs) + Sum(Tail(xs))
RECURSIVE SumSq(_)
SumSq(xs) == IF xs = <<>> THEN 0 ELSE Head(xs) * Head(xs) + SumSq(Tail(xs))
RECURSIVE MaxOf(_)
MaxOf(xs) == IF Len(xs) = 1 THEN Head(xs) ELSE Max(Head(xs), MaxOf(Tail(xs)))
RECURSIVE MinOf(_)
MinOf(xs) == IF Len(xs) = 1 THEN Head(xs) ELSE Min(Head(xs), MinOf(Tail(xs)))

\* n * np.std(xs) * 100: the population deviation, kept as a numerator over n.
StdTimesN(xs) == Sqrt((Len(xs) * SumSq(xs) - Sum(xs) * Sum(xs)) * 10000)

\* Frames: one whose landmarks are found, one with none, one that makes
\* cv2.cvtColor or process raise.
PoseFrame(x) == [k |-> "lm", x |-> x]
FaceFrame(m, e) == [k |-> "lm", mouth |-> m, eye |-> e]
NoLandmarks == [k |-> "none"]
BadFrame == [k |-> "bad"]

Uncapped(frames, cap) == frames
\* video_frames[:cap]
Capped(frames, cap) == SubSeq(frames, 1, Min(cap, Len(frames)))

HasBadFrame(frames) == \E i \in 1..Len(frames) : frames[i].k = "bad"

\* Lines 299-313: the loop over the frames; landmarks is the array of one
\* coordinate, so np.mean(np.abs(landmarks - prev_landmarks)) is one difference.
RECURSIVE MovementScores(_, _)
MovementScores(frames, prev_landmarks) ==
    IF frames = <<>> THEN <<>>
    ELSE LET frame == Head(frames)
         IN  IF frame.k = "lm"
             THEN (IF prev_landmarks # None
                   THEN <<Abs(frame.x - prev_landmarks.v)>>
                   ELSE <<>>) \o MovementScores(Tail(frames), Num(frame.x))
             ELSE MovementScores(Tail(frames), prev_landmarks)

\* Lines 317-330.
MovementBundle(movement_scores) ==
    LET n == Len(movement_scores)
        \* n * fluidity and n * precision
        fluidity == Min(100000 * n, 50000 * n + 5000 * Sum(movement_scores))
        precision == Max(0, 100000 * n - 100 * StdTimesN(movement_scores))
    IN  [fluidity   |-> RoundRatio(fluidity, n),
         precision  |-> RoundRatio(precision, n),
         rhythmSync |-> RoundRatio(fluidity + precision, 2 * n),
         creativity |-> RoundRatio(8 * fluidity + 200 * StdTimesN(movement_scores), 10 * n)]

\* Lines 335-340.
MovementDefault ==
    [fluidity |-> 7500, precision |-> 7500, rhythmSync |-> 7500, creativity |-> 7000]

\* Lines 291-333: the try block of analyze_movement.
MovementBody(video_frames, libs) ==
    IF ~libs THEN Raised("ImportError")
    ELSE LET frames == Capped(video_frames, PoseCap)
             movement_scores == MovementScores(frames, None)
         IN  IF HasBadFrame(frames) THEN Raised("cv2.error")
             ELSE IF movement_scores # <<>> THEN Returned(MovementBundle(movement_scores))
             ELSE FallsThrough

\* Lines 354-367: expression_intensity of each frame with a face.
RECURSIVE ExpressionScores(_)
ExpressionScores(frames) ==
    IF frames = <<>> THEN <<>>
    ELSE LET frame == Head(frames)
         IN  (IF frame.k = "lm" THEN <<frame.mouth + frame.eye>> ELSE <<>>)
             \o ExpressionScores(Tail(frames))

\* Lines 371-379.
ExpressionBundle(expression_scores) ==
    LET n == Len(expression_scores)
        total == Sum(expression_scores)
        expression_range == MaxOf(expression_scores) - MinOf(expression_scores)
    IN  [emotionRange   |-> RoundRatio(Min(100000, 50000 + expression_range * 10000), 1),
         authenticity   |-> RoundRatio(Min(100000 * n, 60000 * n + 2000 * total), n),
         cameraPresence |-> RoundRatio(Min(100000 * n, 55000 * n + 1500 * total
                                                       + expression_range * 5000 * n), n)]

\* Lines 384-388.
ExpressionDefault == [emotionRange |-> 7500, authenticity |-> 7800, cameraPresence |-> 7500]

\* Lines 346-379: the try block of analyze_expression.
ExpressionBody(video_frames, libs) ==
    IF ~libs THEN Raised("ImportError")
    ELSE LET frames == Capped(video_frames, FaceCap)
             expression_scores == ExpressionScores(frames)
         IN  IF HasBadFrame(frames) THEN Raised("cv2.error")
             ELSE IF expression_scores # <<>> THEN Returned(ExpressionBundle(expression_scores))
             ELSE FallsThrough

\* Lines 277-285.
AudioDefault ==
    [pitchAccuracy |-> 7500, rhythmScore |-> 7500, clarity |-> 7500, dynamics |-> 7000,
     expression |-> 7250]

\* Lines 244-275: the try block of analyze_audio.  pitch_std is np.std of the
\* pitch values in tenths of a hertz (None when there is none), beat_std that
\* of the beat intervals in milliseconds (None with fewer than two beats),
\* centroid the mean spectral centroid in hertz, rms_std np.std(rms) in 1/10000.
AudioBody(a, libs) ==
    IF ~libs THEN Raised("ImportError")
    ELSE IF ~a.loads THEN Raised("LibrosaError")
    ELSE LET pitch_stability == IF a.pitch_std # None
                                THEN 100000 - Min(100000, 10 * a.pitch_std.v) ELSE 70000
             rhythm_score == IF a.beat_std # None
                             THEN 100000 - Min(100000, 50 * a.beat_std.v) ELSE 70000
             clarity == Min(100000, 50000 + 10 * a.centroid)
             dynamics == Min(100000, 50000 + 20 * a.rms_std)
         IN  Returned([pitchAccuracy |-> RoundRatio(pitch_stability, 1),
                       rhythmScore   |-> RoundRatio(rhythm_score, 1),
                       clarity       |-> RoundRatio(clarity, 1),
                       dynamics      |-> RoundRatio(dynamics, 1),
                       expression    |-> RoundRatio(pitch_stability + dynamics, 2)])

\* The except Exception clause of each analyzer and the return of the default.
Guarded(tried, default) ==
    CASE tried.kind = "returned"    -> tried
      [] tried.kind = "fallthrough" -> Returned(default)
      [] OTHER -> IF Catches("Exception", tried.e) THEN Returned(default)
                  ELSE [kind |-> "raised", e |-> tried.e]

analyze_audio(a, libs) == Guarded(AudioBody(a, libs), AudioDefault)
analyze_movement(video_frames, libs) ==
    Guarded(MovementBody(video_frames, libs), MovementDefault)
analyze_expression(video_frames, libs) ==
    Guarded(ExpressionBody(video_frames, libs), ExpressionDefault)

\* The inputs.
Coords == {0, 10, 30}
PoseFrames == {PoseFrame(x) : x \in Coords} \cup {NoLandmarks, BadFrame}
FaceFrames == {FaceFrame(0, 0), FaceFrame(1, 2), FaceFrame(3, 4), NoLandmarks, BadFrame}
CapOf(which) == IF which = "movement" THEN PoseCap ELSE FaceCap
FramesOf(which) == IF which = "movement" THEN PoseFrames ELSE FaceFrames

SeqsUpTo(S, n) == UNION { [1..k -> S] : k \in 0..n }
Repeat(f, k) == [i \in 1..k |-> f]

\* A free start, one frame repeated up to a length of 0, cap - 1 or cap, and
\* at most one frame after that.
FrameInputs(which) ==
    { start \o Repeat(f, Max(0, upTo - Len(start))) \o last :
        start \in SeqsUpTo(FramesOf(which), MaxFrames),
        f \in FramesOf(which),
        upTo \in {0, CapOf(which) - 1, CapOf(which)},
        last \in SeqsUpTo(FramesOf(which), 1) }

AudioInputs ==
    [loads : BOOLEAN,
     pitch_std : {None, Num(0), Num(250), Num(12000)},
     beat_std : {None, Num(0), Num(40), Num(3000)},
     centroid : {0, 2000, 8000},
     rms_std : {0, 50, 3000}]

InitSignals ==
    /\ ProcessIdle
    /\ NormalizeIdle
    /\ ParseIdle
    /\ sWhich \in {"audio", "movement", "expression"}
    /\ sLibs \in BOOLEAN
    /\ IF sWhich = "audio"
       THEN sAudio \in AudioInputs /\ sFrames = <<>>
       ELSE sAudio = NoAudio /\ sFrames \in FrameInputs(sWhich)
    /\ sOut = NoOutput
    /\ sPc = "call"

AnalyzeAudio ==
    /\ sPc = "call"
    /\ sWhich = "audio"
    /\ sOut' = analyze_audio(sAudio, sLibs)
    /\ sPc' = "done"
    /\ UNCHANGED <<callVars, client, nConstructed, threadVars, nIn, nOut, nOut2, nPc,
                   pText, pBody, pOut, pPc, sWhich, sFrames, sAudio, sLibs>>

AnalyzeMovement ==
    /\ sPc = "call"
    /\ sWhich = "movement"
    /\ sOut' = analyze_movement(sFrames, sLibs)
    /\ sPc' = "done"
    /\ UNCHANGED <<callVars, client, nConstructed, threadVars, nIn, nOut, nOut2, nPc,
                   pText, pBody, pOut, pPc, sWhich, sFrames, sAudio, sLibs>>

AnalyzeExpression ==
    /\ sPc = "call"
    /\ sWhich = "expression"
    /\ sOut' = analyze_expression(sFrames, sLibs)
    /\ sPc' = "done"
    /\ UNCHANGED <<callVars, client, nConstructed, threadVars, nIn, nOut, nOut2, nPc,
                   pText, pBody, pOut, pPc, sWhich, sFrames, sAudio, sLibs>>

NextSignals == AnalyzeAudio \/ AnalyzeMovement \/ AnalyzeExpression

SpecSignals == InitSignals /\ [][NextSignals]_vars

(***************************************************************************)
(* The API layer's VideoAnalysisResponse (api/main.py): what the returned  *)
(* dict must be for the response model to validate it.                     *)
(***************************************************************************)
VideoAnalysisResponseAccepts(r) ==
    /\ r.performanceScore.t = "num"
    /\ r.qualityScore.t = "num"
    /\ r.categoryTags.t = "list"

(***************************************************************************)
(* Properties.                                                             *)
(***************************************************************************)
RequiredKeys == {"performanceScore", "expressionScore", "qualityScore", "timingScore"}
OptionalKeys == {"vocalScore", "movementScore"}

\* The payload json.loads gave for the response text.
Decoded == JsonLoads(ExtractJson(content), body)
\* The record was built from a decoded payload (no failure, no fallback).
BuiltFromPayload == pc \in {"vision_return", "done"} /\ fbCaller = "none"

InRange(x) == x.t = "num" => (0 <= x.v /\ x.v <= 10000)

\* analyze never lets an exception out (the error-handling half of C1).
AnalyzeNeverRaises == pc # "raised"

\* C1: analyze never raises and what it returns is always a structurally valid
\* assessment: one the response model of the API layer accepts (performanceScore
\* and qualityScore numbers, categoryTags a list).
C1_AlwaysValidAssessment ==
    /\ pc # "raised"
    /\ pc = "done" => VideoAnalysisResponseAccepts(result)

\* C2: every numeric field present in the returned assessment lies in [0,100],
\* on the vision path and on the heuristic path.
C2_ScoresInRange ==
    pc = "done" => \A k \in NumKeys : InRange(result[k])

\* C2 witness: a vision result whose payload carried 150 for performanceScore.
C2_Witness ==
    /\ pc = "done"
    /\ fbCaller = "none"
    /\ Decoded.kind = "dict"
    /\ Decoded.d.num["performanceScore"] = Num(15000)
    /\ result.performanceScore = Num(10000)

DefaultOf(k) ==
    IF k = "qualityScore" THEN Num(DefaultQuality)
    ELSE IF k = "performanceScore" THEN Num(DefaultPerformance)
    ELSE IF k = "expressionScore" THEN Num(DefaultExpression)
    ELSE Num(DefaultTiming)

\* C3: the four required scores are present in every returned assessment; a
\* required field the payload gives no value for (missing or null) takes its
\* default 70/75/70/70.
C3_RequiredPresent ==
    pc = "done" =>
        /\ \A k \in RequiredKeys : result[k].t = "num"
        /\ BuiltFromPayload =>
             \A k \in RequiredKeys :
                 Decoded.d.num[k].t \in {"missing", "null"} => result[k] = DefaultOf(k)

\* C4: in the record built from a payload, vocalScore and movementScore are
\* absent exactly when the payload's value is null or missing, and a numeric
\* value, 0 included, is present as its normalized value.
C4_OptionalAbsentOnlyWhenNull ==
    BuiltFromPayload =>
        \A k \in OptionalKeys :
            LET x == Decoded.d.num[k]
            IN  /\ (scores[k] = None) <=> (x.t \in {"missing", "null"})
                /\ x.t = "num" => scores[k] = Num(Round1(Clamp(x.v)))

\* C5: categoryTags of every returned assessment is a non-empty list, and the
\* single generic tag when the payload omits it, gives null or gives [].
C5_TagsNonEmpty ==
    pc = "done" =>
        /\ result.categoryTags.t = "list"
        /\ result.categoryTags.v # <<>>
        /\ (BuiltFromPayload /\ Decoded.d.tags \in {TagMissing, TagNull, TagList(<<>>)})
             => result.categoryTags = TagList(<<"entertainer">>)

\* C6: a failure of the vision scorer (call failed, timed out, nothing
\* parseable) reaches analyze as an error: the scorer returns no record for
\* it, and the fallback is called by analyze only.
C6_FailureIsAnError ==
    failure \in {"upstream", "malformed"} =>
        /\ pc # "vision_return"
        /\ fbCaller # "inner"

\* C7: when the vision path fails, analyze returns the heuristic result for
\* the request's own duration, as the direct heuristic path computes it.
C7_FallbackUsesRequestDuration ==
    (pc = "done" /\ failure \in {"upstream", "malformed"}) =>
        result = FallbackScores(request.duration, noise)

\* The adjustment as the claim states it: by the supplied duration, 0 included.
ClaimedAdjustment(duration) ==
    IF duration.t = "num"
    THEN IF duration.v > LongDuration THEN LongBonus
         ELSE IF duration.v < ShortDuration THEN 0 - ShortPenalty ELSE 0
    ELSE 0

\* C8: on the heuristic path performanceScore is the base 72 plus the noise
\* plus 3 for a duration above 120, minus 2 for every supplied duration below
\* 15 (0 included), and unadjusted otherwise.
C8_DurationAdjustment ==
    (pc = "done" /\ fbCaller = "direct") =>
        result.performanceScore =
            Num(Clamp(Round1(BaseScore + noise.base + ClaimedAdjustment(request.duration))))

\* The request resolves a thumbnail: one is supplied, or the video url is a
\* streaming manifest.
Resolved == StrTruthy(request.thumbnail_url) \/ HasM3u8(request.video_url)
\* The inference client is available to the call.
Configured == client # NoClient

\* C9: within an analyze call the inference service is invoked iff a client is
\* configured and a thumbnail is resolved; otherwise neither the media fetch
\* nor the inference call is made and the result is the heuristic's.
C9_VisionIffConfiguredAndResolved ==
    /\ (fetchCalls > 0 \/ inferenceCalls > 0) => (Configured /\ Resolved)
    /\ pc = "done" =>
         /\ (inferenceCalls > 0) <=> (Configured /\ Resolved)
         /\ ~(Configured /\ Resolved) =>
              /\ fetchCalls = 0
              /\ fbCaller \in {"direct", "outer"}
              /\ result = FallbackScores(request.duration, noise)

\* C9 witness: no thumbnail supplied, one derived from a manifest url, and the
\* inference service was invoked.
C9_Witness ==
    /\ pc = "done"
    /\ ~StrTruthy(request.thumbnail_url)
    /\ thumbnail = Str(<<"v", "/thumbnail.jpg">>)
    /\ inferenceCalls = 1

\* C10: whatever the interleaving of concurrent first uses, the client is
\* constructed at most once and every caller gets the same instance.
C10_SingleInitialization ==
    /\ nConstructed <= 1
    /\ \A t, u \in Threads :
         (tret[t] # NoClient /\ tret[u] # NoClient) => tret[t] = tret[u]

\* clamp(v, 0, 100) as the claim writes it.
ClaimedClamp(v) == IF v < 0 THEN 0 ELSE IF v > 10000 THEN 10000 ELSE v

\* C11: normalize maps absent to absent and a number v to clamp(v, 0, 100)
\* rounded to one decimal (normalize(-5) = 0, normalize(150) = 100,
\* normalize(72.34) = 72.3), and normalizing its result changes nothing.
C11_NormalizeClampsRoundsIdempotent ==
    /\ nPc # "idle" =>
         /\ nIn = Null => nOut = None
         /\ nIn.t = "num" =>
              /\ nOut.t = "num"
              /\ nOut.v % 10 = 0
              /\ 0 <= nOut.v /\ nOut.v <= 10000
              /\ nOut.v - ClaimedClamp(nIn.v) <= 5
              /\ ClaimedClamp(nIn.v) - nOut.v <= 5
         /\ nIn = Num(-500) => nOut = Num(0)
         /\ nIn = Num(15000) => nOut = Num(10000)
         /\ nIn = Num(7234) => nOut = Num(7230)
    /\ nPc = "twice" => nOut2 = nOut

\* C11 witness: 72.34 normalized to 72.3, and again to 72.3.
C11_Witness ==
    /\ nPc = "twice"
    /\ nIn = Num(7234)
    /\ nOut = Num(7230)
    /\ nOut2 = Num(7230)

HasFence(c) == \E i \in 1..Len(c) : IsFence(c[i])
\* The object is wrapped in a fenced block, tagged json or untagged.
FencedWrap == pText.lead \in {<<"fence_json">>, <<"fence">>} /\ pText.trail = <<"fence">>
\* The object stands between prose, with no fenced block in the text.
ProseWrap == pText.lead \in {<<>>, <<"w">>} /\ ~HasFence(pText.trail)

\* C12: a text that wraps an object in a fenced block, with or without a
\* language tag, parses to the same record as the object given bare.
C12_FencedEqualsBare ==
    (pPc = "done" /\ FencedWrap) => pOut = ParseText(pText.obj, pBody)

\* The same, for objects whose own text holds no fence characters.
FencedEqualsBareWithoutInnerFence ==
    (pPc = "done" /\ FencedWrap /\ ~HasFence(pText.obj)) =>
        pOut = ParseText(pText.obj, pBody)

\* C13: without a fenced block, prose OBJ prose parses to the record of OBJ
\* alone, also when the trailing prose holds braces or a second object.
C13_FirstBalancedObject ==
    (pPc = "done" /\ ProseWrap) => pOut = ParseText(pText.obj, pBody)

\* The same, when the trailing prose holds no closing brace.
FirstObjectWithoutTrailingBrace ==
    (pPc = "done" /\ ProseWrap /\ \A i \in 1..Len(pText.trail) : pText.trail[i] # "}") =>
        pOut = ParseText(pText.obj, pBody)

StrategyEntries ==
    { i \in 1..Len(log) : log[i].msg \in {"OpenAI analysis complete",
                                          "OpenAI not available, using fallback analysis"} }

\* C15: a finished analyze call has logged exactly one strategy entry; the
\* entry says vision exactly when the vision scorer produced the returned
\* assessment, and it carries the returned performanceScore.
C15_OneTruthfulLogEntry ==
    pc = "done" =>
        /\ Cardinality(StrategyEntries) = 1
        /\ \A i \in StrategyEntries :
             /\ (log[i].msg = "OpenAI analysis complete") <=> (fbCaller = "none")
             /\ log[i].score = result.performanceScore

\* The part of C15 the code keeps: at most one strategy entry per call, and an
\* entry that carries a score carries the returned performanceScore.
AtMostOneStrategyEntry ==
    /\ Cardinality(StrategyEntries) <= 1
    /\ pc = "done" =>
         \A i \in StrategyEntries :
             log[i].score # None => log[i].score = result.performanceScore

\* The movement scores analyze_movement computes from its input.
InputMovementScores == MovementScores(SubSeq(sFrames, 1, Min(PoseCap, Len(sFrames))), None)

\* C16: every field analyze_movement returns lies in [0,100] (creativity is
\* clamped to at most 100), and when every movement score is zero (an
\* all-identical landmark sequence) fluidity is 50 and precision is 100.
C16_MovementFieldsInRange ==
    (sPc = "done" /\ sWhich = "movement") =>
        /\ \A f \in DOMAIN sOut.bundle : sOut.bundle[f] \in 0..10000
        /\ (/\ sLibs
            /\ ~HasBadFrame(SubSeq(sFrames, 1, Min(PoseCap, Len(sFrames))))
            /\ InputMovementScores # <<>>
            /\ \A i \in 1..Len(InputMovementScores) : InputMovementScores[i] = 0)
           => (sOut.bundle.fluidity = 5000 /\ sOut.bundle.precision = 10000)

\* The part of C16 the code keeps: fluidity, precision and rhythmSync in
\* [0,100], creativity at least 0, and the all-identical sequence.
MovementInRangeButCreativity ==
    (sPc = "done" /\ sWhich = "movement") =>
        /\ \A f \in {"fluidity", "precision", "rhythmSync"} : sOut.bundle[f] \in 0..10000
        /\ sOut.bundle.creativity >= 0
        /\ (/\ sLibs
            /\ ~HasBadFrame(SubSeq(sFrames, 1, Min(PoseCap, Len(sFrames))))
            /\ InputMovementScores # <<>>
            /\ \A i \in 1..Len(InputMovementScores) : InputMovementScores[i] = 0)
           => (sOut.bundle.fluidity = 5000 /\ sOut.bundle.precision = 10000)

\* The default bundle of the analyzer that was called.
DefaultOfAnalyzer ==
    CASE sWhich = "audio"    -> AudioDefault
      [] sWhich = "movement" -> MovementDefault
      [] OTHER               -> ExpressionDefault

\* The frames of the input up to the analyzer's cap.
FramesWithinCap == SubSeq(sFrames, 1, Min(CapOf(sWhich), Len(sFrames)))

\* An extraction failure: a library that cannot be imported, audio that cannot
\* be loaded, a frame within the cap that cannot be processed.
ExtractionFails ==
    \/ ~sLibs
    \/ sWhich = "audio" /\ ~sAudio.loads
    \/ sWhich # "audio" /\ HasBadFrame(FramesWithinCap)

NothingDetected ==
    sWhich # "audio" /\ \A i \in 1..Len(sFrames) : sFrames[i].k # "lm"

\* C17: a signal analyzer never raises; an extraction failure, and frames in
\* none of which landmarks or a face are detected, give exactly the analyzer's
\* default bundle; the result is the result on the frames within the cap
\* (30 pose, 20 face) alone.
C17_AnalyzersNeverRaise ==
    sPc = "done" =>
        /\ sOut.kind = "returned"
        /\ ExtractionFails => sOut.bundle = DefaultOfAnalyzer
        /\ NothingDetected => sOut.bundle = DefaultOfAnalyzer
        /\ sWhich = "movement" => sOut = analyze_movement(FramesWithinCap, sLibs)
        /\ sWhich = "expression" => sOut = analyze_expression(FramesWithinCap, sLibs)

\* C17 witness: thirty pose frames with landmarks that move, then a frame
\* beyond the cap that cannot be processed: the result is not the default.
C17_Witness ==
    /\ sPc = "done"
    /\ sWhich = "movement"
    /\ sLibs
    /\ Len(sFrames) = PoseCap + 1
    /\ sFrames[PoseCap + 1].k = "bad"
    /\ ~HasBadFrame(FramesWithinCap)
    /\ sOut.kind = "returned"
    /\ sOut.bundle # MovementDefault

====
